---- MODULE Spec2Model ----
(***************************************************************************)
(* Model of src/classes/Trades.ts: the sequential offer queue              *)
(* (receivedOffers / processingOffer), the retrying fetchOffer and         *)
(* acceptOfferRetry, the items-in-trade list and the offer state-change    *)
(* reactor.  JavaScript runs one callback at a time, so every action below *)
(* is one callback (or one event handler) run to completion, including the *)
(* promise continuations it settles synchronously after it.                *)
(***************************************************************************)
EXTENDS Integers, Sequences, FiniteSets, TLC

\* ------------------------------------------------------------------ bounds
NumOffers == 3
NumAssets == 2
MaxPollCount == 0
\* the offers 1..NumChanging are the ones the Gateway reports state changes of
NumChanging == 2

\* ------------------------------------------------------- program constants
MaxAttempts == 5
PollInterval == 120000
SummaryPeriod == 120000

Offers == 1..NumOffers
Assets == 1..NumAssets
NoOffer == 0
Changing == 1..NumChanging

\* offer.itemsToGive: offer o gives away assets 1..min(o, NumAssets), so that
\* distinct offers compete for the same assets
ItemsToGive(o) == [i \in 1..(IF o < NumAssets THEN o ELSE NumAssets) |-> i]

\* TradeOfferManager.ETradeOfferState values used by Trades.ts
Active == "Active"
CreatedNeedsConfirmation == "CreatedNeedsConfirmation"
Accepted == "Accepted"
InEscrow == "InEscrow"
Declined == "Declined"
States == {Active, CreatedNeedsConfirmation, Accepted, InEscrow, Declined}
\* not an offer state: the Gateway has not reported the offer yet
Unknown == "none"

\* TradeOfferManager.EOfferFilter
ActiveOnly == "ActiveOnly"
All == "All"

VARIABLES
    itemsInTrade,     \* this.itemsInTrade: sequence of asset ids
    receivedOffers,   \* this.receivedOffers: sequence of offer ids
    processingOffer,  \* this.processingOffer
    pollCount,        \* this.pollCount
    handledByUs,      \* offer.data('handledByUs') per offer id
    inflight,         \* pending asynchronous operations of the pipeline
    confirming,       \* pending detached acceptConfirmation calls (offer ids)
    offerState,       \* state of each offer as last notified ("none" = unknown)
    inventory,        \* asset ids in the Inventory cache
    refreshing,       \* pending Inventory fetch() calls started by onOfferChanged
    last              \* what the last callback did (observation only)

vars == <<itemsInTrade, receivedOffers, processingOffer, pollCount,
          handledByUs, inflight, confirming, offerState, inventory,
          refreshing, last>>

queueVars == <<receivedOffers, processingOffer, inflight>>
reactorVars == <<inventory, refreshing>>

\* ----------------------------------------------------------------- helpers
Range(s) == {s[i] : i \in DOMAIN s}

\* Array.prototype.indexOf, 1-based; 0 stands for -1
IndexOf(s, x) ==
    IF x \in Range(s)
    THEN CHOOSE i \in DOMAIN s : s[i] = x /\ \A j \in 1..(i - 1) : s[j] # x
    ELSE 0

\* Array.prototype.splice(index, 1)
Splice(s, i) == [j \in 1..(Len(s) - 1) |-> IF j < i THEN s[j] ELSE s[j + 1]]

Count(s, x) == Cardinality({i \in DOMAIN s : s[i] = x})

\* exponentialBackoff (lib/helpers), in units of its base delay
exponentialBackoff(n) == 2 ^ n

\* ------------------------------------------------------ items-in-trade list
\* mutant: reserving an id that is already reserved releases it
setItemInTrade_Toggles(items, assetid) ==
    IF IndexOf(items, assetid) = 0
    THEN Append(items, assetid)
    ELSE Splice(items, IndexOf(items, assetid))

setItemInTrade(items, assetid) ==
    IF IndexOf(items, assetid) = 0 THEN Append(items, assetid) ELSE items

unsetItemInTrade(items, assetid) ==
    IF IndexOf(items, assetid) # 0 THEN Splice(items, IndexOf(items, assetid)) ELSE items

RECURSIVE setAll(_, _)
setAll(items, give) ==
    IF give = <<>> THEN items
    ELSE setAll(setItemInTrade(items, Head(give)), Tail(give))

RECURSIVE unsetAll(_, _)
unsetAll(items, give) ==
    IF give = <<>> THEN items
    ELSE unsetAll(unsetItemInTrade(items, Head(give)), Tail(give))

\* -------------------------------------------------- pending operations
\* stage: getOffer, fetchSession, fetchDelay, handler, accept, acceptSession,
\*        acceptDelay, decline
\* attempts: the attempts counter of fetchOffer / acceptOfferRetry
\* calls, fails: Gateway calls made and error answers received by this chain
\* wait: the delay passed to Promise.delay
Op(id, stage, attempts, calls, fails, wait) ==
    [id |-> id, stage |-> stage, attempts |-> attempts,
     calls |-> calls, fails |-> fails, wait |-> wait]

\* The queue part of the object, threaded through the synchronous calls
QState == [q |-> receivedOffers, p |-> processingOffer, ops |-> inflight]

\* last: the callback that ran last, the offer it was about, its outcome and,
\* when it settled a retry chain, the Gateway calls the chain made
Obs(act, id, out, calls) ==
    [act |-> act, id |-> id, out |-> out, calls |-> calls]

\* ------------------------------------------------------------ queue methods
handlerProcessOffer(S, id) ==
    [S EXCEPT !.ops = @ \cup {Op(id, "handler", 0, 0, 0, 0)}]

fetchOffer(S, id, attempts, calls, fails) ==
    [S EXCEPT !.ops = @ \cup {Op(id, "getOffer", attempts, calls + 1, fails, 0)}]

\* mutant: advances although an offer is being processed
processNextOffer_IgnoresBusy(S) ==
    IF Len(S.q) = 0
    THEN S
    ELSE fetchOffer([S EXCEPT !.p = TRUE], S.q[1], 0, 0, 0)

\* mutant: takes the id at the back of the queue
processNextOffer_TakesLast(S) ==
    IF S.p \/ Len(S.q) = 0
    THEN S
    ELSE fetchOffer([S EXCEPT !.p = TRUE], S.q[Len(S.q)], 0, 0, 0)

processNextOffer(S) ==
    IF S.p \/ Len(S.q) = 0
    THEN S
    ELSE fetchOffer([S EXCEPT !.p = TRUE], S.q[1], 0, 0, 0)

\* mutant: no indexOf test
enqueueOffer_NoDedupe(S, id) ==
    LET S1 == [S EXCEPT !.q = Append(@, id)]
    IN  IF Len(S1.q) = 1
        THEN handlerProcessOffer([S1 EXCEPT !.p = TRUE], id)
        ELSE processNextOffer(S1)

\* mutant: the first entry goes through processNextOffer like the others
enqueueOffer_FetchesFirst(S, id) ==
    IF IndexOf(S.q, id) = 0
    THEN processNextOffer([S EXCEPT !.q = Append(@, id)])
    ELSE S

enqueueOffer(S, id) ==
    IF IndexOf(S.q, id) = 0
    THEN LET S1 == [S EXCEPT !.q = Append(@, id)]
         IN  IF Len(S1.q) = 1
             THEN handlerProcessOffer([S1 EXCEPT !.p = TRUE], id)
             ELSE processNextOffer(S1)
    ELSE S

\* mutant: lastIndexOf instead of indexOf
dequeueOffer_LastOccurrence(q, offerId) ==
    IF IndexOf(q, offerId) # 0
    THEN Splice(q, CHOOSE i \in DOMAIN q :
                      q[i] = offerId /\ \A j \in (i + 1)..Len(q) : q[j] # offerId)
    ELSE q

dequeueOffer(q, offerId) ==
    IF IndexOf(q, offerId) # 0 THEN Splice(q, IndexOf(q, offerId)) ELSE q

\* mutant: the Processing flag is not cleared
finishProcessingOffer_KeepsFlag(S, offerId) ==
    processNextOffer([S EXCEPT !.q = dequeueOffer(@, offerId)])

finishProcessingOffer(S, offerId) ==
    processNextOffer([S EXCEPT !.q = dequeueOffer(@, offerId), !.p = FALSE])

SetQ(S) ==
    /\ receivedOffers' = S.q
    /\ processingOffer' = S.p
    /\ inflight' = S.ops

Done(op) == [QState EXCEPT !.ops = @ \ {op}]

\* ------------------------------------------------------------------- Init
Init ==
    /\ itemsInTrade = <<>>
    /\ receivedOffers = <<>>
    /\ processingOffer = FALSE
    /\ pollCount = 0
    /\ handledByUs = [o \in Offers |-> FALSE]
    /\ inflight = {}
    /\ confirming = {}
    /\ offerState = [o \in Offers |-> Unknown]
    /\ inventory = Assets
    /\ refreshing = {}
    /\ last = Obs("init", NoOffer, "", 0)

\* ------------------------------------------------------------ onNewOffer
\* The Gateway reports an offer as new once, when it first sees it complete;
\* a glitched report is discarded and the offer stays unreported
\* (offer.data('partner', ...) is a metadata stamp and is not modelled).
\* mutant: no isGlitched test
OnNewOffer_IgnoresGlitch(o, glitched) ==
    /\ offerState[o] = Unknown
    /\ itemsInTrade' = setAll(itemsInTrade, ItemsToGive(o))
    /\ SetQ(enqueueOffer(QState, o))
    /\ offerState' = [offerState EXCEPT ![o] = Active]
    /\ last' = Obs("onNewOffer", o, IF glitched THEN "glitched" ELSE "enqueued", 0)
    /\ UNCHANGED <<pollCount, handledByUs, confirming, reactorVars>>

OnNewOffer(o, glitched) ==
    /\ offerState[o] = Unknown
    /\ IF glitched
       THEN /\ UNCHANGED <<itemsInTrade, receivedOffers, processingOffer, inflight,
                           offerState>>
            /\ last' = Obs("onNewOffer", o, "glitched", 0)
       ELSE /\ itemsInTrade' = setAll(itemsInTrade, ItemsToGive(o))
            /\ SetQ(enqueueOffer(QState, o))
            /\ offerState' = [offerState EXCEPT ![o] = Active]
            /\ last' = Obs("onNewOffer", o, "enqueued", 0)
    /\ UNCHANGED <<pollCount, handledByUs, confirming, reactorVars>>

\* ------------------------------------------------------------ onOfferList
RECURSIVE enqueueAll(_, _)
enqueueAll(S, ids) ==
    IF ids = <<>> THEN S
    ELSE enqueueAll(enqueueOffer(S, Head(ids)), Tail(ids))

\* the received list in id order, restricted to the ids in `keep`
RECURSIVE ListOf(_, _)
ListOf(keep, n) ==
    IF n = 0 THEN <<>>
    ELSE IF n \in keep THEN Append(ListOf(keep, n - 1), n) ELSE ListOf(keep, n - 1)

\* line 102: the filter on offer.data('handledByUs')
\* mutant: no filter
notHandled_NoFilter(ids) == ids

notHandled(ids) == SelectSeq(ids, LAMBDA o : handledByUs[o] # TRUE)

\* received: the ids of the received offers whose state in the list is Active.
\* The Gateway lists an offer only once it has reported it as new.
\* last.out records what the sweep met: "duplicate" when an offer it enqueues
\* is already queued, else "handled" when it listed an offer stamped
\* handledByUs (filtered out at line 102).
OnOfferList(filter, received) ==
    LET count == pollCount + 1
        summary == filter = ActiveOnly /\ count * PollInterval >= SummaryPeriod
        activeReceived == ListOf(received, NumOffers)
        unhandled == notHandled(activeReceived)
    IN  /\ pollCount' = IF summary THEN 0 ELSE count
        /\ pollCount' <= MaxPollCount
        /\ received \subseteq {o \in Offers : offerState[o] # Unknown}
        /\ SetQ(enqueueAll(QState, unhandled))
        /\ last' = Obs("onOfferList", NoOffer,
                       IF \E i \in DOMAIN unhandled : IndexOf(receivedOffers, unhandled[i]) # 0
                       THEN "duplicate"
                       ELSE IF \E o \in received : handledByUs[o] THEN "handled" ELSE "", 0)
        /\ UNCHANGED <<itemsInTrade, handledByUs, confirming, offerState, reactorVars>>

\* ------------------------------------------------- Gateway answers (inputs)
NotFoundMessages == {"NoMatch", "No matching offer found"}
NotLoggedIn == "Not Logged In"
Transient == "ETIMEDOUT"
\* getOffer: an error message, or the state of the offer it returns
GetOfferErrors == NotFoundMessages \cup {NotLoggedIn, Transient}
GetOfferAnswers == GetOfferErrors \cup {Active, Accepted}
\* offer.accept: an error (message, with or without an eresult) or a status
AcceptErrors ==
    [err : {TRUE}, message : {NotLoggedIn, Transient}, eresult : BOOLEAN, status : {""}]
AcceptStatuses ==
    [err : {FALSE}, message : {""}, eresult : {FALSE}, status : {"accepted", "pending"}]
\* getWebSession(true).asCallback: err is null on success
SessionAnswers == {"null", "Error"}

\* ------------------------------------------------ processNextOffer callback
\* the callback of fetchOffer(offerId).asCallback(...) at lines 184-202
\* mutant: requeues whatever the length of the queue
fetchCallback_AlwaysRequeue(S, offerId, err, offer) ==
    LET S1 == IF err THEN [S EXCEPT !.q = Append(@, offerId)] ELSE S
    IN  IF ~offer
        THEN finishProcessingOffer(S1, offerId)
        ELSE handlerProcessOffer(S1, offerId)

\* mutant: tests err where the code tests !offer
fetchCallback_ChecksErrOnly(S, offerId, err, offer) ==
    LET S1 == IF err /\ Len(S.q) # 1
              THEN [S EXCEPT !.q = Append(@, offerId)]
              ELSE S
    IN  IF err
        THEN finishProcessingOffer(S1, offerId)
        ELSE handlerProcessOffer(S1, offerId)

fetchCallback(S, offerId, err, offer) ==
    LET S1 == IF err /\ Len(S.q) # 1
              THEN [S EXCEPT !.q = Append(@, offerId)]
              ELSE S
    IN  IF ~offer
        THEN finishProcessingOffer(S1, offerId)
        ELSE handlerProcessOffer(S1, offerId)

\* ------------------------------------------------------------ fetchOffer
\* mutant: gives up one attempt early
tooManyRetries_OffByOne(attempts) == attempts >= MaxAttempts

tooManyRetries(attempts) == attempts > MaxAttempts

\* the callback of manager.getOffer
GetOfferCallback(op, answer) ==
    LET attempts == op.attempts + 1
        S == Done(op)
    IN  /\ op.stage = "getOffer"
        /\ IF answer \in GetOfferErrors
           THEN IF answer \in NotFoundMessages
                THEN /\ SetQ(fetchCallback(S, op.id, FALSE, FALSE))
                     /\ last' = Obs("getOffer", op.id, "absent", op.calls)
                ELSE IF tooManyRetries(attempts)
                THEN /\ SetQ(fetchCallback(S, op.id, TRUE, FALSE))
                     /\ last' = Obs("getOffer", op.id, "rejected", op.calls)
                ELSE IF answer # NotLoggedIn
                THEN /\ SetQ([S EXCEPT !.ops = @ \cup
                                {Op(op.id, "fetchDelay", attempts, op.calls,
                                    op.fails + 1, exponentialBackoff(attempts))}])
                     /\ last' = Obs("getOffer", op.id, "retry", 0)
                ELSE /\ SetQ([S EXCEPT !.ops = @ \cup
                                {Op(op.id, "fetchSession", attempts, op.calls,
                                    op.fails + 1, 0)}])
                     /\ last' = Obs("getOffer", op.id, "session", 0)
           ELSE IF answer # Active
                THEN /\ SetQ(fetchCallback(S, op.id, FALSE, FALSE))
                     /\ last' = Obs("getOffer", op.id, "inactive", op.calls)
                ELSE /\ SetQ(fetchCallback(S, op.id, FALSE, TRUE))
                     /\ last' = Obs("getOffer", op.id, "offer", op.calls)
        /\ UNCHANGED <<itemsInTrade, pollCount, handledByUs, confirming, offerState, reactorVars>>

\* the callback of bot.getWebSession(true) inside fetchOffer
FetchSessionCallback(op, err) ==
    /\ op.stage = "fetchSession"
    /\ SetQ([Done(op) EXCEPT !.ops = @ \cup
               {Op(op.id, "fetchDelay", op.attempts, op.calls, op.fails,
                   IF err # "null" THEN 0 ELSE exponentialBackoff(op.attempts))}])
    /\ last' = Obs("fetchSession", op.id, err, 0)
    /\ UNCHANGED <<itemsInTrade, pollCount, handledByUs, confirming, offerState, reactorVars>>

\* Promise.delay(...) elapsed: resolve(this.fetchOffer(offerId, attempts))
FetchDelayElapsed(op) ==
    /\ op.stage = "fetchDelay"
    /\ SetQ(fetchOffer(Done(op), op.id, op.attempts, op.calls, op.fails))
    /\ last' = Obs("fetchDelay", op.id, "getOffer", 0)
    /\ UNCHANGED <<itemsInTrade, pollCount, handledByUs, confirming, offerState, reactorVars>>

\* ----------------------------------------------------- handlerProcessOffer
acceptOfferRetry(S, id, attempts, calls, fails) ==
    [S EXCEPT !.ops = @ \cup {Op(id, "accept", attempts, calls + 1, fails, 0)}]

declineOffer(S, id) ==
    [S EXCEPT !.ops = @ \cup {Op(id, "decline", 0, 1, 0, 0)}]

\* the callback of actionFunc.call(this, offer).asCallback(...) at lines 154-163
\* mutant: finishes the pass also when the action failed
actionCallback_FinishesOnError(S, id, err) == finishProcessingOffer(S, id)

actionCallback(S, id, err) ==
    IF err THEN S ELSE finishProcessingOffer(S, id)

HandlerResponses == {"accept", "decline", "error"}

\* mutant: a failed Decision finishes the pass
HandlerCallback_FinishesOnError(op, response) ==
    /\ op.stage = "handler"
    /\ IF response = "error"
       THEN /\ SetQ(finishProcessingOffer(Done(op), op.id))
            /\ UNCHANGED handledByUs
       ELSE /\ handledByUs' = [handledByUs EXCEPT ![op.id] = TRUE]
            /\ IF response = "accept"
               THEN SetQ(acceptOfferRetry(Done(op), op.id, 0, 0, 0))
               ELSE SetQ(declineOffer(Done(op), op.id))
    /\ last' = Obs("handler", op.id, response, 0)
    /\ UNCHANGED <<itemsInTrade, pollCount, confirming, offerState, reactorVars>>

\* the callback of handler.onNewTradeOffer(offer) at lines 134-164
HandlerCallback(op, response) ==
    /\ op.stage = "handler"
    /\ IF response = "error"
       THEN /\ SetQ(Done(op))
            /\ UNCHANGED handledByUs
       ELSE /\ handledByUs' = [handledByUs EXCEPT ![op.id] = TRUE]
            /\ IF response = "accept"
               THEN SetQ(acceptOfferRetry(Done(op), op.id, 0, 0, 0))
               ELSE SetQ(declineOffer(Done(op), op.id))
    /\ last' = Obs("handler", op.id, response, 0)
    /\ UNCHANGED <<itemsInTrade, pollCount, confirming, offerState, reactorVars>>

\* ------------------------------------------------------- acceptOfferRetry
\* the test that rejects the accept for good (line 304); answer.eresult
\* stands for err.eresult !== undefined
\* mutant: a session-expired error is retried even when it carries an eresult
acceptRejects_SessionFirst(answer, attempts) ==
    (answer.eresult /\ answer.message # NotLoggedIn) \/ attempts > MaxAttempts

acceptRejects(answer, attempts) == answer.eresult \/ attempts > MaxAttempts

\* acceptOffer, lines 266-269: on status 'pending' acceptConfirmation is
\* started and not waited for
\* mutant: the confirmation is never started
startConfirmation_Never(pending, id, status) == pending

startConfirmation(pending, id, status) ==
    IF status = "pending" THEN pending \cup {id} ELSE pending

\* the callback of offer.accept, followed by the callbacks of acceptOffer and
\* of handlerProcessOffer when the retry chain settles
AcceptCallback(op, answer) ==
    LET attempts == op.attempts + 1
        S == Done(op)
    IN  /\ op.stage = "accept"
        /\ IF answer.err
           THEN /\ UNCHANGED confirming
                /\ IF acceptRejects(answer, attempts)
                   THEN /\ SetQ(actionCallback(S, op.id, TRUE))
                        /\ last' = Obs("accept", op.id, "failed", op.calls)
                   ELSE IF answer.message # NotLoggedIn
                   THEN /\ SetQ([S EXCEPT !.ops = @ \cup
                                   {Op(op.id, "acceptDelay", attempts, op.calls,
                                       op.fails + 1, exponentialBackoff(attempts))}])
                        /\ last' = Obs("accept", op.id, "retry", 0)
                   ELSE /\ SetQ([S EXCEPT !.ops = @ \cup
                                   {Op(op.id, "acceptSession", attempts, op.calls,
                                       op.fails + 1, 0)}])
                        /\ last' = Obs("accept", op.id, "session", 0)
           ELSE /\ confirming' = startConfirmation(confirming, op.id, answer.status)
                /\ SetQ(actionCallback(S, op.id, FALSE))
                /\ last' = Obs("accept", op.id, answer.status, op.calls)
        /\ UNCHANGED <<itemsInTrade, pollCount, handledByUs, offerState, reactorVars>>

AcceptSessionCallback(op, err) ==
    /\ op.stage = "acceptSession"
    /\ SetQ([Done(op) EXCEPT !.ops = @ \cup
               {Op(op.id, "acceptDelay", op.attempts, op.calls, op.fails,
                   IF err # "null" THEN 0 ELSE exponentialBackoff(op.attempts))}])
    /\ last' = Obs("acceptSession", op.id, err, 0)
    /\ UNCHANGED <<itemsInTrade, pollCount, handledByUs, confirming, offerState, reactorVars>>

AcceptDelayElapsed(op) ==
    /\ op.stage = "acceptDelay"
    /\ SetQ(acceptOfferRetry(Done(op), op.id, op.attempts, op.calls, op.fails))
    /\ last' = Obs("acceptDelay", op.id, "accept", 0)
    /\ UNCHANGED <<itemsInTrade, pollCount, handledByUs, confirming, offerState, reactorVars>>

\* the callback of community.acceptConfirmationForObject (detached)
ConfirmationCallback(o, err) ==
    /\ o \in confirming
    /\ confirming' = confirming \ {o}
    /\ last' = Obs("confirmation", o, IF err THEN "failed" ELSE "confirmed", 0)
    /\ UNCHANGED <<itemsInTrade, receivedOffers, processingOffer, pollCount,
                   handledByUs, inflight, offerState, reactorVars>>

\* ------------------------------------------------------------ declineOffer
\* the callback of offer.decline
DeclineCallback(op, err) ==
    /\ op.stage = "decline"
    /\ SetQ(actionCallback(Done(op), op.id, err))
    /\ last' = Obs("decline", op.id, IF err THEN "failed" ELSE "declined", 0)
    /\ UNCHANGED <<itemsInTrade, pollCount, handledByUs, confirming, offerState, reactorVars>>

\* ------------------------------------------------------------ setPollData
\* Called once at start-up with the saved poll data.  received: the ids the
\* saved poll data holds as Active received offers; withItems: those whose
\* offerData records an items list.
SetPollData(received, withItems) ==
    LET RECURSIVE mark(_, _)
        mark(items, n) ==
            IF n > NumOffers THEN items
            ELSE mark(IF n \in withItems THEN setAll(items, ItemsToGive(n)) ELSE items,
                      n + 1)
    IN  /\ last.act = "init"
        /\ withItems \subseteq received
        /\ itemsInTrade' = mark(itemsInTrade, 1)
        /\ offerState' = [o \in Offers |-> IF o \in received THEN Active ELSE Unknown]
        /\ last' = Obs("setPollData", NoOffer, "", 0)
        /\ UNCHANGED <<queueVars, pollCount, handledByUs, confirming, reactorVars>>

\* ---------------------------------------------------------- onOfferChanged
\* mutant: an offer that needs confirmation counts as no longer active
InActiveFamily_ActiveOnly(state) == state = Active

InActiveFamily(state) == state = Active \/ state = CreatedNeedsConfirmation

\* The states an offer can move to (the Gateway's offer lifecycle): Accepted
\* and Declined are final, an offer in escrow is accepted or declined later.
NextStates(state) ==
    IF InActiveFamily(state) THEN States \ {state}
    ELSE IF state = InEscrow THEN {Accepted, Declined}
    ELSE {}

\* line 379, negated: the offer was accepted, the Inventory is refreshed first
\* mutant: an offer in escrow is treated like one that was not accepted
needsRefresh_AcceptedOnly(state) == state = Accepted

needsRefresh(state) == state = Accepted \/ state = InEscrow

\* The Gateway reports that a known offer changed to newState.
OnOfferChanged(o, newState) ==
    /\ offerState[o] # Unknown
    /\ newState \in NextStates(offerState[o])
    /\ offerState' = [offerState EXCEPT ![o] = newState]
    /\ itemsInTrade' = IF InActiveFamily(newState)
                       THEN setAll(itemsInTrade, ItemsToGive(o))
                       ELSE unsetAll(itemsInTrade, ItemsToGive(o))
    /\ IF ~needsRefresh(newState)
       THEN /\ UNCHANGED reactorVars
            /\ last' = Obs("onOfferChanged", o, "notified", 0)
       ELSE /\ inventory' = inventory \ Range(ItemsToGive(o))
            /\ refreshing' = refreshing \cup {[id |-> o, state |-> newState]}
            /\ last' = Obs("onOfferChanged", o, "refresh", 0)
    /\ UNCHANGED <<queueVars, pollCount, handledByUs, confirming>>

\* the callback of getInventory().fetch(): the Handler is notified either way
InventoryFetchCallback(r) ==
    /\ r \in refreshing
    /\ refreshing' = refreshing \ {r}
    /\ last' = Obs("inventoryFetch", r.id, "notified", 0)
    /\ UNCHANGED <<itemsInTrade, queueVars, pollCount, handledByUs, confirming,
                   offerState, inventory>>

\* ----------------------------------------------------------- specification
Next ==
    \/ \E o \in Offers, glitched \in BOOLEAN : OnNewOffer(o, glitched)
    \/ \E filter \in {ActiveOnly, All}, received \in SUBSET Offers :
            OnOfferList(filter, received)
    \/ \E op \in inflight, answer \in GetOfferAnswers : GetOfferCallback(op, answer)
    \/ \E op \in inflight, err \in SessionAnswers : FetchSessionCallback(op, err)
    \/ \E op \in inflight : FetchDelayElapsed(op)
    \/ \E op \in inflight, response \in HandlerResponses : HandlerCallback(op, response)
    \/ \E op \in inflight, answer \in AcceptErrors \cup AcceptStatuses :
            AcceptCallback(op, answer)
    \/ \E op \in inflight, err \in SessionAnswers : AcceptSessionCallback(op, err)
    \/ \E op \in inflight : AcceptDelayElapsed(op)
    \/ \E op \in inflight, err \in BOOLEAN : DeclineCallback(op, err)
    \/ \E o \in Offers, err \in BOOLEAN : ConfirmationCallback(o, err)

Spec == Init /\ [][Next]_vars

\* The reservation side: intake, the saved poll data and the state-change
\* reactor, while the Decision capability has not answered yet.
NextReactor ==
    \/ \E received \in SUBSET Changing : SetPollData(received, received)
    \/ \E o \in Changing, glitched \in BOOLEAN : OnNewOffer(o, glitched)
    \/ \E o \in Changing, newState \in States : OnOfferChanged(o, newState)
    \/ \E r \in refreshing : InventoryFetchCallback(r)

SpecReactor == Init /\ [][NextReactor]_vars

TypeOK ==
    /\ Range(receivedOffers) \subseteq Offers
    /\ Range(itemsInTrade) \subseteq Assets
    /\ processingOffer \in BOOLEAN

\* ------------------------------------------------------------- vocabulary
FetchStages == {"getOffer", "fetchSession", "fetchDelay"}
IsPrefix(s, t) == Len(s) <= Len(t) /\ SubSeq(t, 1, Len(s)) = s
InFlightIds == {op.id : op \in inflight}
\* the last callback was an enqueue (intake or the reconciliation sweep)
EnqueueStep == last'.act = "onOfferList" \/ (last'.act = "onNewOffer" /\ last'.out = "enqueued")
\* the getOffer callback that ran last rejected the fetch (retries exhausted)
FetchRejected == last'.act = "getOffer" /\ last'.out = "rejected"
\* the getOffer callback that ran last resolved the fetch absent
FetchAbsent == last'.act = "getOffer" /\ last'.out \in {"absent", "inactive"}
\* the getOffer callback that ran last resolved the fetch with an Active offer
FetchResolved == last'.act = "getOffer" /\ last'.out = "offer"
\* the Decision capability is being started for o by this step
DecisionStarts(o) ==
    /\ \E op \in inflight' : op.id = o /\ op.stage = "handler"
    /\ ~ \E op \in inflight : op.id = o /\ op.stage = "handler"
\* o is taken in flight by this step
TakenInFlight(o) == o \in InFlightIds' /\ o \notin InFlightIds
\* Processing is set, yet no callback of the pipeline is pending
Stalled == processingOffer /\ inflight = {} /\ receivedOffers # <<>>

\* C1: at most one offer id is in flight (being fetched, decided or acted on)
\* at any instant, and only while the Processing flag is set.
C1_MutualExclusion ==
    /\ Cardinality(inflight) <= 1
    /\ Cardinality(InFlightIds) <= 1
    /\ inflight # {} => processingOffer

\* an offer is in flight while a later offer was enqueued behind it
C1_Witness ==
    /\ Cardinality(inflight) = 1
    /\ Len(receivedOffers) >= 2
    /\ last.act = "onNewOffer"
    /\ last.out = "enqueued"

\* C2: no offer id appears more than once in receivedOffers, and enqueueOffer
\* of an id that is already in the queue changes nothing.
C2_QueueUnique ==
    /\ \A o \in Offers : Count(receivedOffers, o) <= 1
    /\ \A o \in Range(receivedOffers) : enqueueOffer(QState, o) = QState

\* a sweep has just listed an offer that was already queued
C2_Witness ==
    /\ last.act = "onOfferList"
    /\ last.out = "duplicate"
    /\ Len(receivedOffers) >= 2

\* C3 as stated: when the fetch is rejected and the queue holds only the
\* failed id, the id stays at the front of the queue.
C3_Original ==
    [][(FetchRejected /\ Len(receivedOffers) = 1)
          => (receivedOffers' # <<>> /\ Head(receivedOffers') = last'.id)]_vars

\* C3 amended: when the fetch is rejected and the queue holds only the failed
\* id, finishProcessingOffer removes the id: the queue is empty, Processing is
\* clear and nothing is in flight.  Only with more than one entry the failed
\* id stays queued, once, at the tail.
C3_SingleEntryDropped ==
    [][FetchRejected =>
          IF Len(receivedOffers) = 1
          THEN /\ receivedOffers' = <<>>
               /\ ~processingOffer'
               /\ inflight' = {}
          ELSE /\ Count(receivedOffers', last'.id) = 1
               /\ receivedOffers'[Len(receivedOffers')] = last'.id]_vars

\* the only queued id was dropped by a rejected fetch
C3_Witness ==
    /\ last.act = "getOffer"
    /\ last.out = "rejected"
    /\ receivedOffers = <<>>
    /\ ~processingOffer

\* C4 as stated: an enqueue into an empty queue starts a fetch of that id, and
\* the Decision capability is only ever started by a fetch that resolved the
\* Active offer.
C4_Original ==
    [][/\ (EnqueueStep /\ receivedOffers = <<>> /\ receivedOffers' # <<>>)
              => \E op \in inflight' :
                    op.id = Head(receivedOffers') /\ op.stage = "getOffer"
       /\ \A o \in Offers :
              DecisionStarts(o) => (FetchResolved /\ last'.id = o)]_vars

\* C4 amended: an enqueue into an empty queue starts the Decision capability
\* for that id at once, without a fetch; every other start of the Decision
\* capability follows a fetch of that id that resolved the Active offer.
C4_DecisionDirectOrFetched ==
    [][/\ (EnqueueStep /\ receivedOffers = <<>> /\ receivedOffers' # <<>>)
              => inflight' = {Op(Head(receivedOffers'), "handler", 0, 0, 0, 0)}
       /\ \A o \in Offers :
              DecisionStarts(o) =>
                 \/ /\ EnqueueStep
                    /\ receivedOffers = <<>>
                    /\ ~processingOffer
                    /\ receivedOffers' # <<>>
                    /\ Head(receivedOffers') = o
                 \/ /\ FetchResolved
                    /\ last'.id = o
                    /\ \E op \in inflight : op.id = o /\ op.stage = "getOffer"]_vars

\* the Decision capability was started by intake into an empty queue
C4_Witness ==
    /\ last.act = "onNewOffer"
    /\ last.out = "enqueued"
    /\ receivedOffers = <<last.id>>
    /\ inflight = {Op(last.id, "handler", 0, 0, 0, 0)}

\* C5: an asset id is in itemsInTrade exactly when some known offer in the
\* Active / CreatedNeedsConfirmation family gives that asset away.
C5_ReservationInvariant ==
    \A a \in Assets :
        a \in Range(itemsInTrade)
            <=> \E o \in Offers :
                    InActiveFamily(offerState[o]) /\ a \in Range(ItemsToGive(o))

\* C6: when the chosen accept or decline fails, the queue is left as it was
\* with the id at the front, Processing set and nothing pending; from such a
\* state on the front id never changes, Processing stays set and no offer is
\* fetched, decided or acted on, whatever is enqueued.
C6_ActionFailureStalls ==
    [][/\ (last'.act \in {"accept", "decline"} /\ last'.out = "failed")
              => /\ Stalled'
                 /\ receivedOffers' = receivedOffers
                 /\ Head(receivedOffers') = last'.id
       /\ Stalled
              => /\ Stalled'
                 /\ IsPrefix(receivedOffers, receivedOffers')]_vars

\* the queue is stalled on an offer whose action failed, and a later offer was
\* enqueued behind it
C6_Witness ==
    /\ Stalled
    /\ handledByUs[Head(receivedOffers)]
    /\ Len(receivedOffers) >= 2
    /\ last.act = "onNewOffer"
    /\ last.out = "enqueued"

\* C7: an offer is taken in flight only as the head of the queue, alone, and
\* if another offer was in flight, only by the callback that ends that offer's
\* pass (its front entry leaves the front); an enqueue during a pass only
\* appends to the queue.
C7_StrictSerialization ==
    [][/\ \A o \in Offers :
              TakenInFlight(o) =>
                 /\ InFlightIds' = {o}
                 /\ receivedOffers' # <<>>
                 /\ Head(receivedOffers') = o
                 /\ \A op \in inflight :
                        /\ receivedOffers # <<>>
                        /\ op.id = Head(receivedOffers)
                        /\ receivedOffers' \in
                              {Tail(receivedOffers),
                               Append(Tail(receivedOffers), op.id)}
       /\ (EnqueueStep /\ processingOffer)
              => /\ inflight' = inflight
                 /\ processingOffer'
                 /\ IsPrefix(receivedOffers, receivedOffers')]_vars

\* the first offer's pass has just finished with a successful accept and the
\* offer enqueued behind it is now being fetched for the first time
C7_Witness ==
    /\ last.act = "accept"
    /\ last.out = "accepted"
    /\ \E op \in inflight :
           op.stage = "getOffer" /\ op.calls = 1 /\ op.id # last.id

\* C8: when the fetch of the front id is rejected and the queue holds more
\* than one entry, the queue is rotated by one (front id once, at the tail,
\* the others in order), the new front id is the one taken in flight, and a
\* fetch only ever starts for the id at the front.
C8_TailRequeue ==
    [][/\ (FetchRejected /\ Len(receivedOffers) > 1)
              => /\ last'.id = Head(receivedOffers)
                 /\ receivedOffers' = Append(Tail(receivedOffers), Head(receivedOffers))
                 /\ inflight' = {Op(receivedOffers[2], "getOffer", 0, 1, 0, 0)}
       /\ \A op \in inflight' :
              (op.stage = "getOffer" /\ op \notin inflight)
                 => (receivedOffers' # <<>> /\ op.id = Head(receivedOffers'))]_vars

\* a rejected fetch has just moved its id behind the others
C8_Witness ==
    /\ last.act = "getOffer"
    /\ last.out = "rejected"
    /\ Len(receivedOffers) >= 2
    /\ receivedOffers[Len(receivedOffers)] = last.id
    /\ \E op \in inflight : op.id = Head(receivedOffers) /\ op.id # last.id

\* progress measure of a fetch chain: it falls with every step of the chain
FetchMeasure(op) ==
    3 * (MaxAttempts + 1 - op.calls)
        + (IF op.stage = "getOffer" THEN 2 ELSE IF op.stage = "fetchSession" THEN 1 ELSE 0)

\* C9: a fetch that resolves the offer has made exactly (failures + 1)
\* getOffer calls with at most 5 failures; a fetch is rejected exactly by the
\* failure of its 6th call; no fetch makes more than 6 calls, and every step of
\* a fetch lowers a measure that is never negative, so every fetch settles.
C9_FetchRetryBound ==
    [][/\ \A op \in inflight :
              (op.stage = "getOffer" /\ op \notin inflight' /\ last'.id = op.id) =>
                 /\ FetchResolved => (op.calls = op.fails + 1 /\ op.fails <= MaxAttempts
                                        /\ last'.calls = op.calls)
                 /\ FetchRejected => (op.fails = MaxAttempts /\ op.calls = MaxAttempts + 1)
                 /\ (op.fails >= MaxAttempts /\ last'.out \in {"retry", "session"}) => FALSE
       /\ \A op \in inflight' :
              op.stage \in FetchStages =>
                 /\ op.calls <= MaxAttempts + 1
                 /\ FetchMeasure(op) >= 0
                 /\ \A old \in inflight :
                        (old.stage \in FetchStages /\ old # op)
                           => (old.id # op.id \/ FetchMeasure(op) < FetchMeasure(old))]_vars

\* a fetch has just resolved the offer on its 6th getOffer call
C9_Witness ==
    /\ last.act = "getOffer"
    /\ last.out = "offer"
    /\ last.calls = MaxAttempts + 1
    /\ \E op \in inflight : op.id = last.id /\ op.stage = "handler"

\* C10: when the fetch of the in-flight id resolves absent (no matching offer,
\* or an offer that is not Active), the pass is finished: the id leaves the
\* queue, nothing is started for it (no Decision, no accept, no decline), it is
\* not stamped handledByUs and the queue advances to the next id.
C10_AbsentBypassesDecision ==
    [][FetchAbsent =>
          /\ receivedOffers # <<>>
          /\ last'.id = Head(receivedOffers)
          /\ receivedOffers' = Tail(receivedOffers)
          /\ last'.id \notin Range(receivedOffers')
          /\ last'.id \notin InFlightIds'
          /\ \A op \in inflight' : op.stage = "getOffer" /\ op.calls = 1
          /\ handledByUs' = handledByUs
          /\ confirming' = confirming
          /\ processingOffer' = (receivedOffers' # <<>>)]_vars

\* a fetch has just resolved absent (no matching offer) after three failures
C10_Witness ==
    /\ last.act = "getOffer"
    /\ last.out = "absent"
    /\ last.calls = 4
    /\ last.id \notin Range(receivedOffers)

\* a forced session refresh has just settled for the in-flight retry chain
SessionStep == last'.act \in {"fetchSession", "acceptSession"}
\* the refresh that has just settled succeeded (asCallback passes err = null)
RefreshSucceeded == last'.out = "null"

\* C11: when getOffer or accept answers 'Not Logged In' and attempts remain, a
\* forced session refresh is started; when it settles the wait before the
\* retry is 0 if the refresh succeeded and backoff(attempt) if it failed, and
\* the retry runs with the attempt counter increased by one.
C11_SessionRetryDelay ==
    [][/\ (last'.act \in {"getOffer", "accept"} /\ last'.out = "session")
              => \E op \in inflight, new \in inflight' :
                    /\ new.id = op.id
                    /\ new.stage = (IF op.stage = "getOffer"
                                    THEN "fetchSession" ELSE "acceptSession")
                    /\ new.attempts = op.attempts + 1
       /\ SessionStep
              => \E op \in inflight, new \in inflight' :
                    /\ op.stage \in {"fetchSession", "acceptSession"}
                    /\ new.id = op.id
                    /\ new.stage = (IF op.stage = "fetchSession"
                                    THEN "fetchDelay" ELSE "acceptDelay")
                    /\ new.attempts = op.attempts
                    /\ new.wait = (IF RefreshSucceeded
                                   THEN 0 ELSE exponentialBackoff(op.attempts))
       /\ last'.act \in {"fetchDelay", "acceptDelay"}
              => \E op \in inflight, new \in inflight' :
                    /\ op.stage = last'.act
                    /\ new.id = op.id
                    /\ new.stage = (IF op.stage = "fetchDelay" THEN "getOffer" ELSE "accept")
                    /\ new.attempts = op.attempts
                    /\ new.calls = op.calls + 1]_vars

\* progress measure of an accept chain: it falls with every step of the chain
AcceptStages == {"accept", "acceptSession", "acceptDelay"}
AcceptMeasure(op) ==
    3 * (MaxAttempts + 1 - op.calls)
        + (IF op.stage = "accept" THEN 2 ELSE IF op.stage = "acceptSession" THEN 1 ELSE 0)

\* C12: an accept error that carries an eresult fails the accept at once, on
\* any attempt and also when its message is 'Not Logged In': no further accept
\* call, no session refresh, no delay; any error of the 6th call fails it as
\* well; an accept never makes more than 6 accept calls and every step of its
\* chain lowers a measure that is never negative, so every accept settles.
C12_AcceptPermanentFailure ==
    [][/\ \A op \in inflight, answer \in AcceptErrors :
              (AcceptCallback(op, answer)
                  /\ (answer.eresult \/ op.calls = MaxAttempts + 1)) =>
                 /\ last'.act = "accept"
                 /\ last'.out = "failed"
                 /\ last'.calls = op.calls
                 /\ inflight' = {}
       /\ \A op \in inflight :
              (op.stage = "accept" /\ last'.act = "accept" /\ last'.out = "failed")
                  => op.calls = op.fails + 1
       /\ \A op \in inflight' :
              op.stage \in AcceptStages =>
                 /\ op.calls <= MaxAttempts + 1
                 /\ op.attempts <= MaxAttempts
                 /\ AcceptMeasure(op) >= 0
                 /\ \A old \in inflight :
                        (old.stage \in AcceptStages /\ old # op)
                           => (old.id = op.id /\ AcceptMeasure(op) < AcceptMeasure(old))]_vars

\* an accept has just failed for good on its first accept call (an error with
\* an eresult), leaving nothing pending
C12_Witness ==
    /\ last.act = "accept"
    /\ last.out = "failed"
    /\ last.calls = 1
    /\ inflight = {}
    /\ handledByUs[last.id]

\* C13: when the Gateway accept resolves 'pending', the accept resolves
\* 'pending' and in the same callback the confirmation is started and the pass
\* is finished (the id leaves the front of the queue, the queue advances or
\* Processing is cleared) while the confirmation is still pending; when the
\* confirmation settles later, with or without an error and whatever the queue
\* is doing, it changes nothing of the queue, the Processing flag, the
\* pending pipeline callbacks, handledByUs or the reservations.
C13_DetachedConfirmation ==
    [][/\ (last'.act = "accept" /\ last'.out = "pending") =>
              /\ last'.id \in confirming'
              /\ receivedOffers # <<>>
              /\ last'.id = Head(receivedOffers)
              /\ receivedOffers' = Tail(receivedOffers)
              /\ last'.id \notin InFlightIds'
              /\ processingOffer' = (receivedOffers' # <<>>)
              /\ handledByUs'[last'.id]
       /\ last'.act = "confirmation" =>
              /\ last'.id \in confirming
              /\ confirming' = confirming \ {last'.id}
              /\ UNCHANGED <<receivedOffers, processingOffer, inflight,
                             handledByUs, itemsInTrade>>
       /\ \A o \in confirming :
              /\ ENABLED ConfirmationCallback(o, TRUE)
              /\ ENABLED ConfirmationCallback(o, FALSE)]_vars

\* the confirmation of an accepted offer has just failed while the next offer
\* of the queue is in flight
C13_Witness ==
    /\ last.act = "confirmation"
    /\ last.out = "failed"
    /\ last.id \notin Range(receivedOffers)
    /\ handledByUs[last.id]
    /\ \E op \in inflight : op.id # last.id

\* the last callback called handler.onTradeOfferChanged
HandlerNotified == last'.out = "notified"

\* C14: a state-change notification whose new state is neither Accepted nor
\* InEscrow calls the Handler in the same callback and touches neither the
\* Inventory cache nor its refresh; one whose new state is Accepted or InEscrow
\* does not call the Handler yet: it removes every given-away item from the
\* Inventory cache and starts one refresh, and the Handler is called once,
\* when that refresh settles, with the items still removed.  The Handler is
\* called by nothing else.
C14_NotificationOrdering ==
    [][/\ last'.act = "onOfferChanged" =>
              LET o == last'.id
                  r == [id |-> o, state |-> offerState'[o]]
              IN  IF offerState'[o] \in {Accepted, InEscrow}
                  THEN /\ ~HandlerNotified
                       /\ inventory' = inventory \ Range(ItemsToGive(o))
                       /\ r \notin refreshing
                       /\ refreshing' = refreshing \cup {r}
                  ELSE /\ HandlerNotified
                       /\ inventory' = inventory
                       /\ refreshing' = refreshing
       /\ last'.act = "inventoryFetch" =>
              /\ HandlerNotified
              /\ \E r \in refreshing :
                    /\ r.id = last'.id
                    /\ refreshing' = refreshing \ {r}
                    /\ offerState[r.id] \in {Accepted, InEscrow, Declined}
              /\ Range(ItemsToGive(last'.id)) \cap inventory' = {}
       /\ last'.act \notin {"onOfferChanged", "inventoryFetch"} =>
              /\ ~HandlerNotified
              /\ refreshing' = refreshing
              /\ inventory' = inventory]_vars

\* the Handler has just been notified of an offer that went into escrow, after
\* the refresh settled, while the refresh for another offer is still pending
C14_Witness ==
    /\ last.act = "inventoryFetch"
    /\ last.out = "notified"
    /\ [id |-> last.id, state |-> InEscrow] \notin refreshing
    /\ offerState[last.id] = InEscrow
    /\ Range(ItemsToGive(last.id)) \cap inventory = {}
    /\ refreshing # {}

ActiveFamily == {Active, CreatedNeedsConfirmation}
\* o is the only offer the Gateway has reported so far
OnlyKnown(o) == \A p \in Offers \ {o} : offerState[p] = Unknown

\* C15: a state-change notification of offer o with a new state inside the
\* family {Active, CreatedNeedsConfirmation} leaves every item o gives away
\* reserved (and the list as it was, if they all were reserved already); one
\* with a new state outside the family leaves none of them reserved and
\* touches no other asset; for an offer taken on its own, its items stay
\* reserved while it is in the family, and a further notification outside the
\* family, after the releasing one, leaves the list unchanged.
C15_ReleaseRoundTrip ==
    [][/\ last'.act = "onOfferChanged" =>
              LET o == last'.id
                  give == Range(ItemsToGive(o))
              IN  /\ offerState'[o] \in ActiveFamily =>
                        /\ give \subseteq Range(itemsInTrade')
                        /\ Range(itemsInTrade') = Range(itemsInTrade) \cup give
                        /\ give \subseteq Range(itemsInTrade) => itemsInTrade' = itemsInTrade
                  /\ offerState'[o] \notin ActiveFamily =>
                        /\ give \cap Range(itemsInTrade') = {}
                        /\ Range(itemsInTrade') = Range(itemsInTrade) \ give
                  /\ (offerState[o] \notin ActiveFamily /\ OnlyKnown(o)) =>
                        itemsInTrade' = itemsInTrade
       /\ \A o \in Offers :
              (OnlyKnown(o)' /\ offerState'[o] \in ActiveFamily)
                  => Range(ItemsToGive(o)) \subseteq Range(itemsInTrade')
       /\ \A a \in Assets : Count(itemsInTrade', a) <= 1]_vars

\* the only known offer, released when it went into escrow, has just been
\* reported Declined: a second notification outside the family
C15_Witness ==
    /\ last.act = "onOfferChanged"
    /\ offerState[last.id] = Declined
    /\ [id |-> last.id, state |-> InEscrow] \in refreshing
    /\ \A p \in Offers \ {last.id} : offerState[p] = Unknown
    /\ itemsInTrade = <<>>
    /\ Len(ItemsToGive(last.id)) >= 2

\* the last callback was the intake of a non-glitched offer
IntakeStep == last'.act = "onNewOffer" /\ last'.out = "enqueued"
\* the last callback finished a pass with a successful accept or decline
ActionSucceeded ==
    \/ last'.act = "accept" /\ last'.out \in {"accepted", "pending"}
    \/ last'.act = "decline" /\ last'.out = "declined"

C17_GlitchedIntakeNoop ==
    [][/\ (last'.act = "onNewOffer" /\ last'.out = "glitched") =>
              /\ UNCHANGED <<itemsInTrade, receivedOffers, processingOffer, inflight,
                             handledByUs, confirming, pollCount>>
              /\ offerState'[last'.id] = Unknown
       /\ (last'.act = "onNewOffer" /\ last'.out # "glitched") =>
              /\ Range(ItemsToGive(last'.id)) \subseteq Range(itemsInTrade')
              /\ Count(receivedOffers', last'.id) = 1
              /\ IsPrefix(receivedOffers, receivedOffers')
              /\ processingOffer'
              /\ receivedOffers = <<>> =>
                    \E op \in inflight' : op.id = last'.id /\ op.stage = "handler"
              /\ receivedOffers # <<>> => inflight' = inflight]_vars

\* a glitched offer has just been discarded while another offer is in flight
\* and none of the glitched offer's second item got reserved
C17_Witness ==
    /\ last.act = "onNewOffer"
    /\ last.out = "glitched"
    /\ last.id \notin Range(receivedOffers)
    /\ inflight # {}
    /\ Len(ItemsToGive(last.id)) >= 2
    /\ ~ (Range(ItemsToGive(last.id)) \subseteq Range(itemsInTrade))

\* C18: between callbacks, if Processing is set the queue is not empty, and
\* every pending callback of the pipeline (fetch, Decision, accept, decline) is
\* for the id at the front of the queue; an empty queue means Idle: Processing
\* clear and nothing pending, so the 'length === 1' branch of enqueueOffer,
\* taken only by an enqueue into an empty queue, is taken only while Idle.
C18_InFlightIsHead ==
    /\ processingOffer => receivedOffers # <<>>
    /\ \A op \in inflight :
           /\ receivedOffers # <<>>
           /\ op.id = receivedOffers[1]
           /\ processingOffer
    /\ receivedOffers = <<>> => (~processingOffer /\ inflight = {})
    /\ \A o \in Offers \ Range(receivedOffers) :
           Len(enqueueOffer(QState, o).q) = 1 => (~processingOffer /\ inflight = {})

\* the second offer of the queue has become its head after the first offer's
\* pass and is being declined, with a third offer queued behind it
C18_Witness ==
    /\ Len(receivedOffers) >= 2
    /\ \E op \in inflight : op.stage = "decline" /\ op.id = receivedOffers[1]
    /\ \E p \in Offers \ Range(receivedOffers) : handledByUs[p]

\* the Decision capability has just failed for the in-flight offer
DecisionFailed == last'.act = "handler" /\ last'.out = "error"
\* the queue is stalled on an offer no action was dispatched for
StalledUndecided == Stalled /\ ~handledByUs[receivedOffers[1]]

\* C19: when the Decision capability fails for the in-flight offer, neither
\* accept nor decline is dispatched (nothing is pending afterwards, handledByUs
\* is not stamped) and the pass is not finished: the queue is as it was with
\* the id at the front and Processing set; from such a state on the front id
\* stays, Processing stays set and nothing is ever fetched, decided or acted
\* on, whatever is enqueued or swept.
C19_DecisionFailureStalls ==
    [][/\ DecisionFailed =>
              /\ \E op \in inflight : op.stage = "handler" /\ op.id = last'.id
              /\ inflight' = {}
              /\ handledByUs' = handledByUs
              /\ ~handledByUs'[last'.id]
              /\ receivedOffers' = receivedOffers
              /\ receivedOffers' # <<>>
              /\ receivedOffers'[1] = last'.id
              /\ processingOffer'
              /\ StalledUndecided'
       /\ StalledUndecided =>
              /\ StalledUndecided'
              /\ receivedOffers'[1] = receivedOffers[1]
              /\ IsPrefix(receivedOffers, receivedOffers')
              /\ handledByUs' = handledByUs
              /\ last'.act \in {"onNewOffer", "onOfferList", "confirmation"}]_vars

\* the queue is stalled on an offer whose Decision failed; a sweep has just
\* listed it again, with a later offer queued behind it
C19_Witness ==
    /\ Stalled
    /\ ~handledByUs[receivedOffers[1]]
    /\ Len(receivedOffers) >= 2
    /\ last.act = "onOfferList"
    /\ last.out = "duplicate"

\* an action (accept or decline) is dispatched for o by this step: its first
\* Gateway call is started
Dispatched(o) ==
    \E op \in inflight' \ inflight :
        op.id = o /\ op.stage \in {"accept", "decline"} /\ op.calls = 1

====
